---- MODULE Spec2Model ----
(***************************************************************************)
(* Incremental mailbox synchronization engine of gmail-client-backend:     *)
(* the 'email.sync' listener (EmailSyncListener.handleSyncOldEmails), the  *)
(* sync service (EmailSynceService) and the poller (GmailScheduler).       *)
(*                                                                         *)
(* Every await of the TypeScript code is a suspension point: a handler     *)
(* execution is a record with a program counter, and one action moves one  *)
(* execution from one await to the next.  Synchronous code between two     *)
(* awaits belongs to the action that resumes from the first await.         *)
(***************************************************************************)
EXTENDS Integers, Sequences, FiniteSets, Bags, TLC

\* ---------------------------------------------------------------- domains
Users == {"u1", "u2"}
Ids == {"m1", "m2"}
NoUser == "nobody"

\* the users with an active client session (the poller skips the others);
\* the other user only owns stored rows
OnlineUsers == {"u1"}

\* history ids and page tokens are opaque strings in the code; they are
\* numbers here, in disjoint ranges, so that they can be compared and told
\* apart.
NoHid == 0
NoTok == 0
HistoryTokens == {101, 102}
ListTokens == {201}
Tokens == HistoryTokens \cup ListTokens

\* ----------------------------------------------------------------- bounds
MaxHid == 2
MaxLen == 2
MaxCarry == 2
MaxTicks == 2

\* ------------------------------------------------------ program constants
MAX_PAGES == 10

Slots == {1, 2}
Keys == Users \X Ids

\* ---------------------------------------------------------------- helpers
Range(s) == {s[i] : i \in DOMAIN s}

IdLists == UNION {[1..n -> Ids] : n \in 0..MaxLen}

RECURSIVE Pick(_, _)
\* the subsequence of s at the positions in keep, in order
Pick(s, keep) ==
    IF s = <<>> THEN <<>>
    ELSE LET n == Len(s)
             front == Pick(SubSeq(s, 1, n - 1), keep)
         IN IF n \in keep THEN Append(front, s[n]) ELSE front

VARIABLES
    cursor,     \* GmailSyncState.lastHistoryId per user (NoHid: none stored)
    store,      \* Email table: number of rows per (userId, id)
    remoteHid,  \* the remote mailbox's current history id per user
    pending,    \* bag of 'email.sync' events emitted and not yet delivered
    exec,       \* executions in progress, per slot: the position (pc), the
                \* payload and the locals of a handler or of a service call
    listCalls,  \* number of messages.list calls made by the listener
    startPage,  \* page counter of the request a legacy chain started with
    call,       \* the last direct service call and its result
    poll        \* the poller: its position in a tick and what the tick did

vars == <<cursor, store, remoteHid, pending, exec, listCalls, startPage, call,
          poll>>

\* ------------------------------------------------------------------ store
\* Email rows are keyed by (userId, id); repository.save inserts a row whose
\* key is absent and updates it in place otherwise.
SaveRows(st, u, ids) ==
    [k \in Keys |-> IF k[1] = u /\ k[2] \in Range(ids) /\ st[k] = 0
                    THEN 1 ELSE st[k]]

\* a delete that forgets the userId condition
DeleteWhere_AnyUser(st, u, ids) ==
    [k \in Keys |-> IF k[2] \in Range(ids) THEN 0 ELSE st[k]]

\* emailRepository.delete({ id: In(ids), userId })
DeleteWhere(st, u, ids) ==
    [k \in Keys |-> IF k[1] = u /\ k[2] \in Range(ids) THEN 0 ELSE st[k]]

\* emailRepository.find({ where: { id: In(ids) } }): no userId condition
FindByIds(st, ids) ==
    {k[2] : k \in {kk \in Keys : st[kk] > 0 /\ kk[2] \in Range(ids)}}

\* emailRepository.find({ where: { userId } })
FindByUser(st, u) == {id \in Ids : st[<<u, id>>] > 0}

EmptyStore == [k \in Keys |-> 0]

\* ----------------------------------------------------------------- events
SyncEvent(u, tok, pc, del) ==
    [userId |-> u, pageToken |-> tok, pageCount |-> pc, deleted |-> del]

Emitted(kind, ids, tok, pc) ==
    [kind |-> kind, ids |-> ids, token |-> tok, pageCount |-> pc]

Notify(ids) == Emitted("notify", ids, NoTok, 0)
Embedding(ids) == Emitted("embedding", ids, NoTok, 1)
FollowUp(tok, pc, del) == Emitted("sync", del, tok, pc)

\* ------------------------------------------------------------- executions
IdleExec ==
    [pc |-> "idle", mode |-> "none", userId |-> NoUser, pageToken |-> NoTok,
     pageCount |-> 0, carried |-> <<>>, lastHid |-> NoHid, cold |-> FALSE,
     seed |-> NoHid, known |-> {},
     newIds |-> <<>>, delIds |-> <<>>, token |-> NoTok, hid |-> NoHid,
     next |-> NoTok, valid |-> <<>>, toSave |-> <<>>, out |-> <<>>,
     err |-> FALSE, expired |-> FALSE]

NoCall == [op |-> "none", userId |-> NoUser, saved |-> <<>>]

\* ----------------------------------------------------------------- poller
\* the users with a stored credential, in the order the query returns them
UserOrder == <<"u1", "u2">>

\* pc: the await the tick is suspended at; i: the user of the loop; calls:
\* remote calls made for that user; tick: ticks started; log: what the
\* ticks did, one entry per user visited
IdlePoll == [pc |-> "idle", i |-> 0, calls |-> 0, tick |-> 0, log |-> <<>>]

\* ------------------------------------------------- remote history feed
\* One page of users.history.list: a list of history records, each naming
\* one added or one deleted message, at most MaxLen of them.
HistoryEntries == [kind : {"added", "deleted"}, id : Ids]
HistoryPages == UNION {[1..n -> HistoryEntries] : n \in 0..MaxLen}

IdsOfKind(history, kind) ==
    LET OfKind(h) == h.kind = kind
        sel == SelectSeq(history, OfKind)
    IN [i \in 1..Len(sel) |-> sel[i].id]

\* processHistoryRecords, the parsing loop: ids of messagesAdded
ParseAdded(history) == IdsOfKind(history, "added")

\* processHistoryRecords, the parsing loop: ids of messagesDeleted
ParseDeleted(history) == IdsOfKind(history, "deleted")

\* ------------------------------------------- listener, after a page result
NotifyIf(ids) == IF ids # <<>> THEN <<Notify(ids)>> ELSE <<>>
EmbeddingIf(ids) == IF ids # <<>> THEN <<Embedding(ids)>> ELSE <<>>

\* pageCount = 0: notification, embedding event, then the check for more
\* pages begins with await getLastHistoryId
AfterSyncWithHistory(x, newEmailIds, deletedEmailIds) ==
    [x EXCEPT !.out = x.out \o NotifyIf(newEmailIds \o deletedEmailIds)
                            \o EmbeddingIf(newEmailIds),
              !.pc = "h0_getLast2"]

\* pageCount = 1: notification, embedding event, then either the follow-up
\* (after the sleep) or the final cursor write
AfterProcessPage(x, newEmailIds, deletedEmailIds) ==
    [x EXCEPT !.out = x.out
                  \o NotifyIf(newEmailIds \o x.carried \o deletedEmailIds)
                  \o EmbeddingIf(newEmailIds),
              !.pc = IF x.next # NoTok THEN "p1_sleep"
                     ELSE IF x.hid # NoHid THEN "p1_final"
                     ELSE "ret"]

\* processHistoryRecords returns { newEmailIds, deletedEmailIds }: the parsed
\* lists, to its caller
PhrReturn(x) ==
    IF x.pageCount = 0 THEN AfterSyncWithHistory(x, x.newIds, x.delIds)
    ELSE AfterProcessPage(x, x.newIds, x.delIds)

\* processHistoryRecords, "Update lastHistoryId": whenever the response
\* carries a historyId
AfterDelete(x) ==
    IF x.hid # NoHid THEN [x EXCEPT !.pc = "phr_cursor"] ELSE PhrReturn(x)

\* the cursor write is reached without the delete
AfterSave_CursorBeforeDelete(x) == AfterDelete(x)

\* processHistoryRecords: if (deletedEmailIds.length > 0), the delete comes
\* before the cursor write
AfterSave(x) ==
    IF x.delIds # <<>> THEN [x EXCEPT !.pc = "phr_delete"] ELSE AfterDelete(x)

AfterFind(x) ==
    IF x.toSave # <<>> THEN [x EXCEPT !.pc = "phr_save"] ELSE AfterSave(x)

AfterFetch(x) ==
    IF x.valid # <<>> THEN [x EXCEPT !.pc = "phr_find"] ELSE AfterSave(x)

\* the follow-up request is emitted as soon as the page is parsed
AfterParse_EmitsFirst(x) ==
    LET y == [x EXCEPT !.out = Append(x.out, FollowUp(x.token, 1, x.delIds))]
    IN IF x.newIds # <<>> THEN [y EXCEPT !.pc = "phr_fetch"] ELSE AfterSave(y)

\* processHistoryRecords: if (newEmailIds.length > 0), after the parsing loop
AfterParse(x) ==
    IF x.newIds # <<>> THEN [x EXCEPT !.pc = "phr_fetch"] ELSE AfterSave(x)

\* the cold path falls through into the history fetch
ColdReturn_FallThrough(x) == [x EXCEPT !.pc = "sh_hist"]

\* syncEmailsWithHistory, no cursor stored: return empty lists
ColdReturn(x) == AfterSyncWithHistory(x, <<>>, <<>>)

\* the value the final cursor write stores: the page token instead
FinalCursorValue_Token(x) == x.pageToken

\* the value the final cursor write stores: historyRes.historyId
FinalCursorValue(x) == x.hid

\* the token a follow-up request carries: historyRes.nextPageToken
NextToken(x) == x.next

\* --------------------------------------------------------------- dispatch
\* the page bound is not checked
LegacyStops_NoBound(ev) == ev.pageToken = NoTok

\* handleSyncOldEmails: if (!pageToken || pageCount > this.MAX_PAGES) return
LegacyStops(ev) == ev.pageToken = NoTok \/ ev.pageCount > MAX_PAGES

\* handleSyncOldEmails: the branch a payload takes, up to its first await
Start(ev) ==
    LET x == [IdleExec EXCEPT !.userId = ev.userId,
                              !.pageToken = ev.pageToken,
                              !.pageCount = ev.pageCount,
                              !.carried = ev.deleted]
    IN IF ev.pageCount = 0
       THEN [x EXCEPT !.mode = "history0", !.pc = "sh_getLast"]
       ELSE IF ev.pageCount = 1 /\ ev.pageToken # NoTok
       THEN [x EXCEPT !.mode = "history1", !.pc = "p1_hist"]
       ELSE IF LegacyStops(ev)
       THEN [x EXCEPT !.mode = "legacy", !.pc = "ret"]
       ELSE [x EXCEPT !.mode = "legacy", !.pc = "lg_list"]

FreeSlot == CHOOSE s \in Slots :
               exec[s].pc = "idle" /\ \A t \in Slots : t < s => exec[t].pc # "idle"

Emit(ev) == pending (+) SetToBag({ev})

\* A handler that has passed its last await runs to its return before
\* anything else runs on the event loop.
NoReturnDue == \A s \in Slots : exec[s].pc # "ret"

\* requests emitted and not yet handled to the end
InFlight ==
    BagCardinality(pending) + Cardinality({s \in Slots : exec[s].pc # "idle"})

\* ---------------------------------------------------------------- actions
\* the event emitter delivers an 'email.sync' event: a new execution starts
Deliver ==
    /\ NoReturnDue
    /\ \E s \in Slots : exec[s].pc = "idle"
    /\ \E ev \in BagToSet(pending) :
          /\ pending' = pending (-) SetToBag({ev})
          /\ exec' = [exec EXCEPT ![FreeSlot] = Start(ev)]
    /\ UNCHANGED <<cursor, store, remoteHid, listCalls, startPage, call, poll>>

\* GmailScheduler.pollForNewEmails, one user of the loop: online, the probe
\* listing is not empty
PollProbe(u, cap) ==
    /\ NoReturnDue
    /\ InFlight < cap
    /\ \E tok \in ListTokens \cup {NoTok} :
          pending' = Emit(SyncEvent(u, tok, 0, <<>>))
    /\ UNCHANGED <<cursor, store, remoteHid, exec, listCalls, startPage, call, poll>>

\* the remote mailbox changes: its history id advances
RemoteAdvance(u) ==
    /\ NoReturnDue
    /\ remoteHid[u] < MaxHid
    /\ remoteHid' = [remoteHid EXCEPT ![u] = @ + 1]
    /\ UNCHANGED <<cursor, store, pending, exec, listCalls, startPage, call, poll>>

\* syncEmailsWithHistory: await getLastHistoryId
GetLastHistoryId(e) ==
    LET x == exec[e] IN
    /\ NoReturnDue
    /\ x.pc = "sh_getLast"
    /\ exec' = [exec EXCEPT ![e] =
          [x EXCEPT !.lastHid = cursor[x.userId],
                    !.cold = (cursor[x.userId] = NoHid),
                    !.pc = IF cursor[x.userId] = NoHid
                           THEN "sh_profile" ELSE "sh_hist"]]
    /\ UNCHANGED <<cursor, store, remoteHid, pending, listCalls, startPage, call, poll>>

\* syncEmailsWithHistory: await getProfile
GetProfile(e) ==
    LET x == exec[e] IN
    /\ NoReturnDue
    /\ x.pc = "sh_profile"
    /\ \E h \in {NoHid, remoteHid[x.userId]} :
          exec' = [exec EXCEPT ![e] =
              IF h # NoHid
              THEN [x EXCEPT !.lastHid = h, !.seed = h, !.pc = "sh_seed"]
              ELSE ColdReturn(x)]
    /\ UNCHANGED <<cursor, store, remoteHid, pending, listCalls, startPage, call, poll>>

\* syncEmailsWithHistory: await updateLastHistoryId(profile.historyId)
SeedCursor(e) ==
    LET x == exec[e] IN
    /\ NoReturnDue
    /\ x.pc = "sh_seed"
    /\ cursor' = [cursor EXCEPT ![x.userId] = x.lastHid]
    /\ exec' = [exec EXCEPT ![e] = ColdReturn(x)]
    /\ UNCHANGED <<store, remoteHid, pending, listCalls, startPage, call, poll>>

\* await getMailboxHistory: from the stored cursor (pageCount = 0) or with
\* the page token (pageCount = 1); then the parsing loop
FetchHistory(e, Pages, Toks) ==
    LET x == exec[e] IN
    /\ NoReturnDue
    /\ x.pc \in {"sh_hist", "p1_hist"}
    /\ \E history \in Pages, tok \in Toks \cup {NoTok},
          h \in {NoHid, remoteHid[x.userId]} :
          /\ tok # NoTok =>
                Len(x.carried) + Len(ParseDeleted(history)) <= MaxCarry
          /\ exec' = [exec EXCEPT ![e] =
                AfterParse([x EXCEPT !.newIds = ParseAdded(history),
                                     !.delIds = ParseDeleted(history),
                                     !.token = tok,
                                     !.next = IF x.pageCount = 0 THEN NoTok ELSE tok,
                                     !.hid = h])]
    /\ UNCHANGED <<cursor, store, remoteHid, pending, listCalls, startPage, call, poll>>

\* processHistoryRecords: Promise.all of messages.get, failures become null
FetchDetails(e) ==
    LET x == exec[e] IN
    /\ NoReturnDue
    /\ x.pc = "phr_fetch"
    /\ \E ok \in SUBSET (1..Len(x.newIds)) :
          exec' = [exec EXCEPT ![e] =
              AfterFetch([x EXCEPT !.valid = Pick(x.newIds, ok)])]
    /\ UNCHANGED <<cursor, store, remoteHid, pending, listCalls, startPage, call, poll>>

\* processHistoryRecords: find the ids that exist, keep the others
FindExisting(e) ==
    LET x == exec[e]
        existingIdSet == FindByIds(store, x.valid)
        NotExisting(id) == id \notin existingIdSet
    IN
    /\ NoReturnDue
    /\ x.pc = "phr_find"
    /\ exec' = [exec EXCEPT ![e] =
          AfterFind([x EXCEPT !.toSave = SelectSeq(x.valid, NotExisting)])]
    /\ UNCHANGED <<cursor, store, remoteHid, pending, listCalls, startPage, call, poll>>

\* processHistoryRecords: emailRepository.save(emailsToSave)
SaveNew(e) ==
    LET x == exec[e] IN
    /\ NoReturnDue
    /\ x.pc = "phr_save"
    /\ store' = SaveRows(store, x.userId, x.toSave)
    /\ exec' = [exec EXCEPT ![e] = AfterSave(x)]
    /\ UNCHANGED <<cursor, remoteHid, pending, listCalls, startPage, call, poll>>

\* processHistoryRecords: emailRepository.delete of the deleted ids
DeleteRemoved(e) ==
    LET x == exec[e] IN
    /\ NoReturnDue
    /\ x.pc = "phr_delete"
    /\ store' = DeleteWhere(store, x.userId, x.delIds)
    /\ exec' = [exec EXCEPT ![e] = AfterDelete(x)]
    /\ UNCHANGED <<cursor, remoteHid, pending, listCalls, startPage, call, poll>>

\* processHistoryRecords: await updateLastHistoryId(historyRes.historyId)
UpdateCursor(e) ==
    LET x == exec[e] IN
    /\ NoReturnDue
    /\ x.pc = "phr_cursor"
    /\ cursor' = [cursor EXCEPT ![x.userId] = x.hid]
    /\ exec' = [exec EXCEPT ![e] = PhrReturn(x)]
    /\ UNCHANGED <<store, remoteHid, pending, listCalls, startPage, call, poll>>

\* listener, pageCount = 0, "Checking for next pages": await getLastHistoryId
GetLastHistoryId2(e) ==
    LET x == exec[e] IN
    /\ NoReturnDue
    /\ x.pc = "h0_getLast2"
    /\ exec' = [exec EXCEPT ![e] =
          [x EXCEPT !.lastHid = cursor[x.userId], !.pc = "h0_hist2"]]
    /\ UNCHANGED <<cursor, store, remoteHid, pending, listCalls, startPage, call, poll>>

\* listener, pageCount = 0: a second getMailboxHistory, from the cursor as
\* it is now; only its nextPageToken is used
CheckNextPages(e, Toks) ==
    LET x == exec[e] IN
    /\ NoReturnDue
    /\ x.pc = "h0_hist2"
    /\ \E tok \in Toks \cup {NoTok} :
          exec' = [exec EXCEPT ![e] =
              [x EXCEPT !.next = tok, !.lastHid = NoHid,
                        !.pc = IF tok # NoTok THEN "h0_sleep" ELSE "ret"]]
    /\ UNCHANGED <<cursor, store, remoteHid, pending, listCalls, startPage, call, poll>>

\* listener, pageCount = 0: after the sleep, emit the page 1 request
EmitPageOne(e) ==
    LET x == exec[e] IN
    /\ NoReturnDue
    /\ x.pc = "h0_sleep"
    /\ pending' = Emit(SyncEvent(x.userId, NextToken(x), 1, x.delIds))
    /\ exec' = [exec EXCEPT ![e] =
          [x EXCEPT !.out = Append(x.out, FollowUp(NextToken(x), 1, x.delIds)),
                    !.pc = "ret"]]
    /\ UNCHANGED <<cursor, store, remoteHid, listCalls, startPage, call, poll>>

\* listener, pageCount = 1: after the sleep, emit the next page's request
EmitNextPage(e) ==
    LET x == exec[e]
        del == x.carried \o x.delIds
    IN
    /\ NoReturnDue
    /\ x.pc = "p1_sleep"
    /\ pending' = Emit(SyncEvent(x.userId, NextToken(x), 1, del))
    /\ exec' = [exec EXCEPT ![e] =
          [x EXCEPT !.out = Append(x.out, FollowUp(NextToken(x), 1, del)),
                    !.pc = "ret"]]
    /\ UNCHANGED <<cursor, store, remoteHid, listCalls, startPage, call, poll>>

\* listener, pageCount = 1, no more pages: "Update lastHistoryId after all
\* pages"
FinalCursor(e) ==
    LET x == exec[e] IN
    /\ NoReturnDue
    /\ x.pc = "p1_final"
    /\ cursor' = [cursor EXCEPT ![x.userId] = FinalCursorValue(x)]
    /\ exec' = [exec EXCEPT ![e] = [x EXCEPT !.pc = "ret"]]
    /\ UNCHANGED <<store, remoteHid, pending, listCalls, startPage, call, poll>>

FailablePcs ==
    {"sh_getLast", "sh_profile", "sh_seed", "sh_hist", "p1_hist", "phr_fetch",
     "phr_find", "phr_save", "phr_delete", "phr_cursor", "h0_getLast2",
     "h0_hist2", "p1_final", "lg_list", "fb_list", "pb_find", "pb_save",
     "sd_find", "sd_save", "sd_delete"}

\* the catch block emits the branch's follow-up request all the same
CatchBlock_Resubmits(x) ==
    [x EXCEPT !.err = TRUE, !.pc = "ret",
              !.out = Append(x.out, FollowUp(x.pageToken, x.pageCount, <<>>))]

\* catch (error) { this.logger.error(...) }: the error is logged, nothing
\* is emitted, the handler returns
CatchBlock(x) == [x EXCEPT !.err = TRUE, !.pc = "ret"]

\* an awaited remote call or store operation rejects: the catch block of
\* the listener's branch logs the error and the handler returns (a direct
\* service call rejects to its caller)
Fail(e) ==
    LET x == exec[e] IN
    /\ NoReturnDue
    /\ x.pc \in FailablePcs
    /\ exec' = [exec EXCEPT ![e] = CatchBlock(x)]
    /\ UNCHANGED <<cursor, store, remoteHid, pending, listCalls, startPage, call, poll>>

\* getMailboxHistory from the stored cursor rejects because that history id
\* is too old (the remote mailbox has moved on): the rejection is one more
\* error for syncEmailsWithHistory and for the listener's catch block
HistoryExpired(e) ==
    LET x == exec[e] IN
    /\ NoReturnDue
    /\ x.pc = "sh_hist"
    /\ x.lastHid < remoteHid[x.userId]
    /\ exec' = [exec EXCEPT ![e] = [CatchBlock(x) EXCEPT !.expired = TRUE]]
    /\ UNCHANGED <<cursor, store, remoteHid, pending, listCalls, startPage, call, poll>>

\* the handler (or the direct service call) returns
Return(e) ==
    LET x == exec[e] IN
    /\ x.pc = "ret"
    /\ exec' = [exec EXCEPT ![e] = IdleExec]
    /\ call' = IF x.mode \in {"first", "deletion"}
               THEN [op |-> x.mode, userId |-> x.userId,
                     saved |-> IF x.err THEN <<>> ELSE x.toSave]
               ELSE call
    /\ UNCHANGED <<cursor, store, remoteHid, pending, listCalls, startPage, poll>>

\* ------------------------------------------------ processAndSaveBatch
IdOrder == <<"m1", "m2">>

\* the ids of a set, as the array the code builds from it
SeqOf(S) ==
    LET In(id) == id \in S IN SelectSeq(IdOrder, In)

\* every candidate is fetched, stored or not
MessagesToFetch_All(messages, existingIdSet) == messages

\* messages.filter((m) => !existingIdSet.has(m.id))
MessagesToFetch(messages, existingIdSet) ==
    LET NotExisting(id) == id \notin existingIdSet IN
    SelectSeq(messages, NotExisting)

\* every stored id is deleted
DeletedDiff_All(dbEmailIdSet, gmailEmailIdSet) == dbEmailIdSet

\* syncEmailsWithDeletion: ids in the database and not in the Gmail list
DeletedDiff(dbEmailIdSet, gmailEmailIdSet) == dbEmailIdSet \ gmailEmailIdSet

\* processAndSaveBatch has returned emailIds.  The legacy branch of the
\* listener notifies, emits the embedding event and sleeps; syncFirstBatch
\* emits the embedding event and, in the same turn, the next page's request.
AfterBatch(x, emailIds) ==
    IF x.mode = "legacy"
    THEN [x EXCEPT !.out = x.out \o NotifyIf(emailIds) \o EmbeddingIf(emailIds),
                   !.toSave = emailIds,
                   !.pc = "lg_sleep"]
    ELSE [x EXCEPT !.out = x.out \o EmbeddingIf(emailIds)
                       \o (IF x.next # NoTok
                           THEN <<FollowUp(x.next, 1, <<>>)>> ELSE <<>>),
                   !.toSave = emailIds,
                   !.pc = "ret"]

\* the events syncFirstBatch emits when the batch call returns into it
BatchPending(x, y) ==
    IF x.mode = "first" /\ y.pc = "ret" /\ ~y.err /\ y.next # NoTok
    THEN Emit(SyncEvent(y.userId, y.next, 1, <<>>))
    ELSE pending

\* processAndSaveBatch, from its entry to its first await
BatchEntry(x) ==
    IF x.newIds = <<>> THEN AfterBatch(x, <<>>) ELSE [x EXCEPT !.pc = "pb_find"]

\* listener, pageCount > 1: getAuthenticatedGmailClient, messages.list with
\* the page token, then processAndSaveBatch
ListPage(e) ==
    LET x == exec[e] IN
    /\ NoReturnDue
    /\ x.pc = "lg_list"
    /\ listCalls' = listCalls + 1
    /\ \E messages \in IdLists, tok \in ListTokens \cup {NoTok} :
          exec' = [exec EXCEPT ![e] =
              BatchEntry([x EXCEPT !.newIds = messages, !.next = tok])]
    /\ UNCHANGED <<cursor, store, remoteHid, pending, startPage, call, poll>>

\* a caller invokes syncFirstBatch(userId)
CallSyncFirstBatch(u) ==
    /\ NoReturnDue
    /\ InFlight = 0
    /\ exec' = [exec EXCEPT ![FreeSlot] =
          [IdleExec EXCEPT !.mode = "first", !.userId = u, !.pc = "fb_list"]]
    /\ UNCHANGED <<cursor, store, remoteHid, pending, listCalls, startPage, call, poll>>

\* syncFirstBatch: getAuthenticatedGmailClient, messages.list, then
\* processAndSaveBatch unless the listing is empty
ListFirst(e) ==
    LET x == exec[e] IN
    /\ NoReturnDue
    /\ x.pc = "fb_list"
    /\ \E messages \in IdLists, tok \in ListTokens \cup {NoTok} :
          exec' = [exec EXCEPT ![e] =
              IF messages = <<>> THEN [x EXCEPT !.pc = "ret"]
              ELSE [x EXCEPT !.newIds = messages, !.next = tok, !.pc = "pb_find"]]
    /\ UNCHANGED <<cursor, store, remoteHid, pending, listCalls, startPage, call, poll>>

\* processAndSaveBatch: find the candidates that exist, keep the others
BatchFind(e) ==
    LET x == exec[e]
        existingIdSet == FindByIds(store, x.newIds)
        messagesToFetch == MessagesToFetch(x.newIds, existingIdSet)
        y == IF messagesToFetch = <<>> THEN AfterBatch(x, <<>>)
             ELSE [x EXCEPT !.valid = messagesToFetch, !.pc = "pb_fetch"]
    IN
    /\ NoReturnDue
    /\ x.pc = "pb_find"
    /\ exec' = [exec EXCEPT ![e] = y]
    /\ pending' = BatchPending(x, y)
    /\ UNCHANGED <<cursor, store, remoteHid, listCalls, startPage, call, poll>>

\* processAndSaveBatch: Promise.all of messages.get, failures become null
BatchFetch(e) ==
    LET x == exec[e] IN
    /\ NoReturnDue
    /\ x.pc = "pb_fetch"
    /\ \E ok \in SUBSET (1..Len(x.valid)) :
          LET validEmails == Pick(x.valid, ok)
              y == IF validEmails = <<>>
                   THEN AfterBatch([x EXCEPT !.valid = <<>>], <<>>)
                   ELSE [x EXCEPT !.valid = <<>>, !.toSave = validEmails,
                                  !.pc = "pb_save"]
          IN /\ exec' = [exec EXCEPT ![e] = y]
             /\ pending' = BatchPending(x, y)
    /\ UNCHANGED <<cursor, store, remoteHid, listCalls, startPage, call, poll>>

\* the batch also deletes the user's rows that are not in it
BatchStore_WithDiff(st, u, ids) ==
    DeleteWhere(SaveRows(st, u, ids), u, SeqOf(FindByUser(st, u) \ Range(ids)))

\* processAndSaveBatch writes the store once: save(validEmails); it has no
\* delete
BatchStore(st, u, ids) == SaveRows(st, u, ids)

\* processAndSaveBatch: emailRepository.save(validEmails), return their ids
BatchSave(e) ==
    LET x == exec[e]
        y == AfterBatch(x, x.toSave)
    IN
    /\ NoReturnDue
    /\ x.pc = "pb_save"
    /\ store' = BatchStore(store, x.userId, x.toSave)
    /\ exec' = [exec EXCEPT ![e] = y]
    /\ pending' = BatchPending(x, y)
    /\ UNCHANGED <<cursor, remoteHid, listCalls, startPage, call, poll>>

\* listener, pageCount > 1: after the sleep, emit the next page's request
\* if the listing had a nextPageToken
LegacyEmit(e) ==
    LET x == exec[e] IN
    /\ NoReturnDue
    /\ x.pc = "lg_sleep"
    /\ pending' = IF x.next # NoTok
                  THEN Emit(SyncEvent(x.userId, x.next, x.pageCount + 1, <<>>))
                  ELSE pending
    /\ exec' = [exec EXCEPT ![e] =
          [x EXCEPT !.out = IF x.next # NoTok
                            THEN Append(x.out, FollowUp(x.next, x.pageCount + 1, <<>>))
                            ELSE x.out,
                    !.pc = "ret"]]
    /\ UNCHANGED <<cursor, store, remoteHid, listCalls, startPage, call, poll>>

\* -------------------------------------------- syncEmailsWithDeletion
DelAfterSave(x) ==
    IF x.delIds # <<>> THEN [x EXCEPT !.pc = "sd_delete"]
    ELSE [x EXCEPT !.pc = "ret"]

\* a caller invokes syncEmailsWithDeletion(userId, messages, gmailClient)
CallSyncEmailsWithDeletion(u) ==
    /\ NoReturnDue
    /\ InFlight = 0
    /\ \E messages \in IdLists :
          exec' = [exec EXCEPT ![FreeSlot] =
              [IdleExec EXCEPT !.mode = "deletion", !.userId = u,
                               !.newIds = messages, !.pc = "sd_find"]]
    /\ UNCHANGED <<cursor, store, remoteHid, pending, listCalls, startPage, call, poll>>

\* syncEmailsWithDeletion: the user's stored ids, the ids to delete and the
\* messages to fetch
DelFind(e) ==
    LET x == exec[e]
        dbEmailIdSet == FindByUser(store, x.userId)
        deletedEmailIds == SeqOf(DeletedDiff(dbEmailIdSet, Range(x.newIds)))
        messagesToFetch == MessagesToFetch(x.newIds, dbEmailIdSet)
        y == [x EXCEPT !.known = dbEmailIdSet, !.delIds = deletedEmailIds,
                       !.valid = messagesToFetch]
    IN
    /\ NoReturnDue
    /\ x.pc = "sd_find"
    /\ exec' = [exec EXCEPT ![e] =
          IF messagesToFetch # <<>> THEN [y EXCEPT !.pc = "sd_fetch"]
          ELSE DelAfterSave(y)]
    /\ UNCHANGED <<cursor, store, remoteHid, pending, listCalls, startPage, call, poll>>

\* syncEmailsWithDeletion: Promise.all of messages.get
DelFetch(e) ==
    LET x == exec[e] IN
    /\ NoReturnDue
    /\ x.pc = "sd_fetch"
    /\ \E ok \in SUBSET (1..Len(x.valid)) :
          LET validEmails == Pick(x.valid, ok) IN
          exec' = [exec EXCEPT ![e] =
              IF validEmails # <<>>
              THEN [x EXCEPT !.valid = <<>>, !.toSave = validEmails,
                             !.pc = "sd_save"]
              ELSE DelAfterSave([x EXCEPT !.valid = <<>>])]
    /\ UNCHANGED <<cursor, store, remoteHid, pending, listCalls, startPage, call, poll>>

\* syncEmailsWithDeletion: emailRepository.save(validEmails)
DelSave(e) ==
    LET x == exec[e] IN
    /\ NoReturnDue
    /\ x.pc = "sd_save"
    /\ store' = SaveRows(store, x.userId, x.toSave)
    /\ exec' = [exec EXCEPT ![e] = DelAfterSave(x)]
    /\ UNCHANGED <<cursor, remoteHid, pending, listCalls, startPage, call, poll>>

\* syncEmailsWithDeletion: emailRepository.delete of the ids to delete
DelDelete(e) ==
    LET x == exec[e] IN
    /\ NoReturnDue
    /\ x.pc = "sd_delete"
    /\ store' = DeleteWhere(store, x.userId, x.delIds)
    /\ exec' = [exec EXCEPT ![e] = [x EXCEPT !.pc = "ret"]]
    /\ UNCHANGED <<cursor, remoteHid, pending, listCalls, startPage, call, poll>>

\* ------------------------------------------- GmailScheduler.pollForNewEmails
PollEntry(p, online, failed, listed, empty, request, notified) ==
    [tick |-> p.tick, userId |-> UserOrder[p.i], online |-> online,
     failed |-> failed, listed |-> listed, empty |-> empty,
     request |-> request, notified |-> notified, calls |-> p.calls]

\* a failure for one user ends the tick
NextUser_AbortOnFailure(p, entry) ==
    [p EXCEPT !.log = Append(p.log, entry),
              !.calls = 0,
              !.i = IF p.i < Len(UserOrder) /\ ~entry.failed THEN p.i + 1 ELSE 0,
              !.pc = IF p.i < Len(UserOrder) /\ ~entry.failed
                     THEN "online" ELSE "idle"]

\* for (const user of users): the body has ended for this user (continue,
\* its last statement, or its catch block); the loop goes on
NextUser(p, entry) ==
    [p EXCEPT !.log = Append(p.log, entry),
              !.calls = 0,
              !.i = IF p.i < Len(UserOrder) THEN p.i + 1 ELSE 0,
              !.pc = IF p.i < Len(UserOrder) THEN "online" ELSE "idle"]

\* the timer fires: pollForNewEmails starts, await userRepository...getMany()
PollTick ==
    /\ poll.pc = "idle"
    /\ poll.tick < MaxTicks
    /\ poll' = [poll EXCEPT !.pc = "users", !.tick = @ + 1]
    /\ UNCHANGED <<cursor, store, remoteHid, pending, exec, listCalls,
                   startPage, call>>

\* the users are loaded: the loop starts with the first of them
PollUsers ==
    /\ poll.pc = "users"
    /\ poll' = [poll EXCEPT !.pc = "online", !.i = 1, !.calls = 0]
    /\ UNCHANGED <<cursor, store, remoteHid, pending, exec, listCalls,
                   startPage, call>>

\* the user query rejects: the outer catch logs, the tick ends
PollUsersFail ==
    /\ poll.pc = "users"
    /\ poll' = [poll EXCEPT !.pc = "idle"]
    /\ UNCHANGED <<cursor, store, remoteHid, pending, exec, listCalls,
                   startPage, call>>

\* await connectionManager.isConnectedGlobally: if (!isOnline) continue
PollOnline ==
    /\ poll.pc = "online"
    /\ \E isOnline \in BOOLEAN :
          poll' = IF isOnline
                  THEN [poll EXCEPT !.pc = "client"]
                  ELSE NextUser(poll, PollEntry(poll, FALSE, FALSE, FALSE,
                                                FALSE, FALSE, FALSE))
    /\ UNCHANGED <<cursor, store, remoteHid, pending, exec, listCalls,
                   startPage, call>>

\* await gmailService.getAuthenticatedGmailClient(user.id)
PollClient ==
    /\ poll.pc = "client"
    /\ poll' = [poll EXCEPT !.pc = "list", !.calls = @ + 1]
    /\ UNCHANGED <<cursor, store, remoteHid, pending, exec, listCalls,
                   startPage, call>>

\* await messages.list; if (messages.length === 0) continue; emit the sync
\* request with pageCount 0 and notify the client
PollList ==
    /\ poll.pc = "list"
    /\ \E empty \in BOOLEAN, tok \in ListTokens \cup {NoTok} :
          LET p == [poll EXCEPT !.calls = @ + 1] IN
          IF empty
          THEN /\ tok = NoTok
               /\ poll' = NextUser(p, PollEntry(p, TRUE, FALSE, TRUE, TRUE,
                                                FALSE, FALSE))
               /\ pending' = pending
          ELSE /\ poll' = NextUser(p, PollEntry(p, TRUE, FALSE, TRUE, FALSE,
                                                TRUE, TRUE))
               /\ pending' = Emit(SyncEvent(UserOrder[poll.i], tok, 0, <<>>))
    /\ UNCHANGED <<cursor, store, remoteHid, exec, listCalls, startPage, call>>

\* an await of the loop body rejects: the inner catch logs a warning
PollFail ==
    /\ poll.pc \in {"online", "client", "list"}
    /\ poll' = NextUser(poll, PollEntry(poll, poll.pc # "online", TRUE, FALSE,
                                        FALSE, FALSE, FALSE))
    /\ UNCHANGED <<cursor, store, remoteHid, pending, exec, listCalls,
                   startPage, call>>

\* ------------------------------------------------- history-mode engine
\* No cursor and no row of an online user yet; the offline user owns any
\* rows.
Init ==
    /\ cursor = [u \in Users |-> NoHid]
    /\ store \in {st \in [Keys -> {0, 1}] :
                     \A k \in Keys : k[1] \in OnlineUsers => st[k] = 0}
    /\ remoteHid = [u \in Users |-> 1]
    /\ pending = EmptyBag
    /\ exec = [s \in Slots |-> IdleExec]
    /\ listCalls = 0
    /\ startPage = 0
    /\ call = NoCall
    /\ poll = IdlePoll

HistorySteps(Pages, Toks) ==
    \/ Deliver
    \/ \E u \in OnlineUsers : RemoteAdvance(u)
    \/ \E e \in Slots : GetLastHistoryId(e)
    \/ \E e \in Slots : GetProfile(e)
    \/ \E e \in Slots : SeedCursor(e)
    \/ \E e \in Slots : FetchHistory(e, Pages, Toks)
    \/ \E e \in Slots : FetchDetails(e)
    \/ \E e \in Slots : FindExisting(e)
    \/ \E e \in Slots : SaveNew(e)
    \/ \E e \in Slots : DeleteRemoved(e)
    \/ \E e \in Slots : UpdateCursor(e)
    \/ \E e \in Slots : GetLastHistoryId2(e)
    \/ \E e \in Slots : CheckNextPages(e, Toks)
    \/ \E e \in Slots : EmitPageOne(e)
    \/ \E e \in Slots : EmitNextPage(e)
    \/ \E e \in Slots : FinalCursor(e)
    \/ \E e \in Slots : Fail(e)
    \/ \E e \in Slots : HistoryExpired(e)
    \/ \E e \in Slots : Return(e)

\* requests one at a time, pages of up to MaxLen history records
Next ==
    \/ \E u \in OnlineUsers : PollProbe(u, 1)
    \/ HistorySteps(HistoryPages, HistoryTokens)

Spec == Init /\ [][Next]_vars

\* overlapping requests, pages of at most one history record
RacePages ==
    {p \in HistoryPages : Len(p) <= 1 /\ \A i \in DOMAIN p : p[i].id = "m1"}
RaceTokens == {101}

NextRace ==
    \/ \E u \in OnlineUsers : PollProbe(u, 2)
    \/ HistorySteps(RacePages, RaceTokens)

InitRace == Init /\ store = EmptyStore

SpecRace == InitRace /\ [][NextRace]_vars

\* ------------------------------------------------------ legacy list pages
\* One legacy request is in flight: page counter k and a listing token.
InitLegacy ==
    /\ cursor = [u \in Users |-> NoHid]
    /\ store = EmptyStore
    /\ remoteHid = [u \in Users |-> 1]
    /\ exec = [s \in Slots |-> IdleExec]
    /\ listCalls = 0
    /\ call = NoCall
    /\ poll = IdlePoll
    /\ \E k \in 2..(MAX_PAGES + 1), tok \in ListTokens :
          /\ startPage = k
          /\ \E u \in Users : pending = SetToBag({SyncEvent(u, tok, k, <<>>)})

NextLegacy ==
    \/ Deliver
    \/ \E e \in Slots : ListPage(e)
    \/ \E e \in Slots : BatchFind(e)
    \/ \E e \in Slots : BatchFetch(e)
    \/ \E e \in Slots : BatchSave(e)
    \/ \E e \in Slots : LegacyEmit(e)
    \/ \E e \in Slots : Fail(e)
    \/ \E e \in Slots : Return(e)

SpecLegacy == InitLegacy /\ [][NextLegacy]_vars

\* ---------------------------------------------------- direct service calls
\* Any rows may be stored; the service functions are called one at a time.
InitService ==
    /\ cursor = [u \in Users |-> NoHid]
    /\ store \in [Keys -> {0, 1}]
    /\ remoteHid = [u \in Users |-> 1]
    /\ pending = EmptyBag
    /\ exec = [s \in Slots |-> IdleExec]
    /\ listCalls = 0
    /\ startPage = 0
    /\ call = NoCall
    /\ poll = IdlePoll

\* the request syncFirstBatch emitted is taken off the bus
Drop ==
    /\ NoReturnDue
    /\ \E ev \in BagToSet(pending) : pending' = pending (-) SetToBag({ev})
    /\ UNCHANGED <<cursor, store, remoteHid, exec, listCalls, startPage, call, poll>>

NextService ==
    \/ \E u \in Users : CallSyncFirstBatch(u)
    \/ \E u \in Users : CallSyncEmailsWithDeletion(u)
    \/ \E e \in Slots : ListFirst(e)
    \/ \E e \in Slots : BatchFind(e)
    \/ \E e \in Slots : BatchFetch(e)
    \/ \E e \in Slots : BatchSave(e)
    \/ \E e \in Slots : DelFind(e)
    \/ \E e \in Slots : DelFetch(e)
    \/ \E e \in Slots : DelSave(e)
    \/ \E e \in Slots : DelDelete(e)
    \/ \E e \in Slots : Fail(e)
    \/ \E e \in Slots : Return(e)
    \/ Drop

SpecService == InitService /\ [][NextService]_vars

\* -------------------------------------------- all three modes, two users
\* A legacy request of the last page for one user is pending, the poller
\* emits requests for the other: executions of both users overlap.
InitContain ==
    /\ InitLegacy
    /\ startPage = MAX_PAGES
    /\ \E ev \in BagToSet(pending) : ev.userId = "u2"

\* requests of user u emitted and not yet handled to the end
InFlightOf(u) ==
    Cardinality({ev \in BagToSet(pending) : ev.userId = u})
        + Cardinality({s \in Slots : exec[s].userId = u})

\* the poller emits a request for a user who has none in flight
PollIdleUser(u) ==
    /\ InFlightOf(u) = 0
    /\ PollProbe(u, 2)

NextContain ==
    \/ \E u \in OnlineUsers : PollIdleUser(u)
    \/ HistorySteps(RacePages, RaceTokens)
    \/ \E e \in Slots : ListPage(e)
    \/ \E e \in Slots : BatchFind(e)
    \/ \E e \in Slots : BatchFetch(e)
    \/ \E e \in Slots : BatchSave(e)
    \/ \E e \in Slots : LegacyEmit(e)

SpecContain == InitContain /\ [][NextContain]_vars

\* ------------------------------------- syncFirstBatch and the listener
\* syncFirstBatch is called, and the request it emits is delivered to the
\* listener like the poller's requests; one request or call at a time
NextFirst ==
    \/ \E u \in OnlineUsers : CallSyncFirstBatch(u)
    \/ \E e \in Slots : ListFirst(e)
    \/ \E e \in Slots : BatchFind(e)
    \/ \E e \in Slots : BatchFetch(e)
    \/ \E e \in Slots : BatchSave(e)
    \/ \E u \in OnlineUsers : PollProbe(u, 1)
    \/ HistorySteps(RacePages, RaceTokens)

SpecFirst == InitRace /\ [][NextFirst]_vars

\* ------------------------------------------------------------- poll ticks
\* the poller alone: the requests it emits are taken off the bus
NextPoll ==
    \/ PollTick
    \/ PollUsers
    \/ PollUsersFail
    \/ PollOnline
    \/ PollClient
    \/ PollList
    \/ PollFail
    \/ Drop

InitPoll == InitService /\ store = EmptyStore

SpecPoll == InitPoll /\ [][NextPoll]_vars

\* ================================================================= claims
Suspended(x) == x.pc \notin {"idle", "ret"}

HistoryModes == {"history0", "history1"}

KindsOf(out) == [i \in DOMAIN out |-> out[i].kind]

\* C1: sync requests of one user are serialized: while an execution for a
\* user is suspended at an await, no other execution for that user has
\* begun to run (every other one for that user is still at its first await
\* with nothing read).  Stated of the code, which has no per-user lock.
SyncSerializedPerUser ==
    \A a, b \in Slots :
        (a # b /\ Suspended(exec[a]) /\ Suspended(exec[b])
              /\ exec[a].userId = exec[b].userId)
        => (exec[a].pc \in {"sh_getLast", "p1_hist"}
              \/ exec[b].pc \in {"sh_getLast", "p1_hist"})

\* C2: applying a history page that carries a nextPageToken leaves the
\* user's persisted cursor unchanged.
CursorKeptOnContinuationPage ==
    [][\A e \in Slots :
          (/\ exec[e].pc = "phr_cursor"
           /\ exec[e].token # NoTok
           /\ exec'[e].pc # "phr_cursor"
           /\ ~exec'[e].err)
          => cursor'[exec[e].userId] = cursor[exec[e].userId]]_vars

\* C3: when the handler of a continuation page that carried no
\* nextPageToken (the terminal page of a multi-page history sync) ends, the
\* persisted cursor is the historyId that page reported; and a cursor is
\* never a page token.
TerminalPageCursor ==
    /\ \A e \in Slots :
          LET x == exec[e] IN
          (x.mode = "history1" /\ x.pc = "ret" /\ ~x.err
              /\ x.token = NoTok /\ x.hid # NoHid)
          => cursor[x.userId] = x.hid
    /\ \A u \in Users : cursor[u] \notin Tokens

\* C3 witness: a continuation page without token has been applied and its
\* handler ends, the cursor being the page's historyId, past the value the
\* first write of the chain could have seen
TerminalPageReached ==
    \E e \in Slots :
        LET x == exec[e] IN
        /\ x.mode = "history1" /\ x.pc = "ret" /\ ~x.err
        /\ x.pageToken \in HistoryTokens
        /\ x.token = NoTok /\ x.hid = 2
        /\ cursor[x.userId] = 2

ColdPcs == {"sh_profile", "sh_seed", "h0_getLast2", "h0_hist2", "h0_sleep", "ret"}

\* C4: a pageCount = 0 request that finds no stored cursor never reaches a
\* fetch, save or delete step, has no added and no deleted id, emits no
\* notification and no embedding event, and once it has written the cursor
\* the persisted cursor is the historyId the profile reported.
ColdStartSafety ==
    \A e \in Slots :
        LET x == exec[e] IN
        x.cold =>
            /\ x.pc \in ColdPcs
            /\ x.newIds = <<>> /\ x.delIds = <<>>
            /\ x.valid = <<>> /\ x.toSave = <<>>
            /\ \A i \in DOMAIN x.out : x.out[i].kind = "sync"
            /\ (x.seed # NoHid
                  /\ (x.pc \in {"h0_getLast2", "h0_hist2", "h0_sleep"}
                        \/ (x.pc = "ret" /\ ~x.err)))
               => cursor[x.userId] = x.seed

\* C4 witness: a cold request has been handled to its end and the cursor is
\* the profile's historyId
ColdStartDone ==
    \E e \in Slots :
        LET x == exec[e] IN
        /\ x.cold /\ x.pc = "ret" /\ ~x.err
        /\ x.seed = 2 /\ cursor[x.userId] = 2
        /\ x.out = <<>>

\* C5: the store never holds two rows with the same (userId, id); and a
\* processAndSaveBatch call that follows a call for the same user neither
\* saves nor returns an id that the earlier call stored.
IdempotentIngestion ==
    /\ \A k \in Keys : store[k] <= 1
    /\ \A e \in Slots :
          LET x == exec[e] IN
          (x.mode = "first" /\ x.pc \in {"pb_save", "ret"}
              /\ call.op = "first" /\ call.userId = x.userId)
          => Range(x.toSave) \cap Range(call.saved) = {}

\* C5 witness: the second of two calls for one user, with a candidate the
\* first call stored and one it did not, has saved the new one
SecondOverlappingBatch ==
    \E e \in Slots :
        LET x == exec[e] IN
        /\ x.mode = "first" /\ x.pc = "ret" /\ ~x.err
        /\ call.op = "first" /\ call.userId = x.userId
        /\ Range(call.saved) \cap Range(x.newIds) # {}
        /\ x.toSave # <<>>
        /\ \A id \in Range(x.newIds) : store[<<x.userId, id>>] = 1

\* C6: syncEmailsWithDeletion(u, R) with L stored for u deletes exactly
\* L \ R for u, and every id of L \cap R is still stored, and was not saved
\* again.
DiffModeDeletion ==
    \A e \in Slots :
        LET x == exec[e]
            L == x.known
            R == Range(x.newIds)
        IN (x.mode = "deletion" /\ x.pc = "ret" /\ ~x.err) =>
              /\ Range(x.delIds) = L \ R
              /\ \A id \in L \ R : store[<<x.userId, id>>] = 0
              /\ \A id \in L \cap R :
                    store[<<x.userId, id>>] = 1 /\ id \notin Range(x.toSave)

\* C6 witness: with two ids stored and one of them in the remote list, the
\* call has deleted the other
DiffModeDeleted ==
    \E e \in Slots :
        LET x == exec[e] IN
        /\ x.mode = "deletion" /\ x.pc = "ret" /\ ~x.err
        /\ x.known = {"m1", "m2"} /\ Range(x.newIds) = {"m1"}
        /\ x.delIds = <<"m2">>
        /\ store[<<x.userId, "m1">>] = 1 /\ store[<<x.userId, "m2">>] = 0

\* C7: the delete step of a history page with deleted ids D removes the
\* rows (u, d), d in D, and changes no other row.
ExplicitModeDeletion ==
    [][\A e \in Slots :
          (/\ exec[e].pc = "phr_delete"
           /\ exec'[e].pc # "phr_delete"
           /\ ~exec'[e].err)
          => \A k \in Keys :
                store'[k] = IF k[1] = exec[e].userId /\ k[2] \in Range(exec[e].delIds)
                            THEN 0 ELSE store[k]]_vars

\* C7 witness: a page that deleted m1 has passed its delete step; the
\* user's own m2 and the other user's m1 are still stored
ExplicitDeleteDone ==
    \E e \in Slots :
        LET x == exec[e] IN
        /\ x.mode \in HistoryModes /\ x.pc = "phr_cursor"
        /\ x.delIds = <<"m1">>
        /\ store[<<x.userId, "m1">>] = 0
        /\ store[<<x.userId, "m2">>] = 1
        /\ \E v \in Users \ {x.userId} : store[<<v, "m1">>] = 1

\* C8: a legacy request whose page counter exceeds MAX_PAGES returns at
\* once: no listing call, no save, no event; and a chain started at page
\* counter k makes at most MAX_PAGES + 1 - k listing calls.
LegacyPaginationBound ==
    /\ \A e \in Slots :
          LET x == exec[e] IN
          (x.mode = "legacy" /\ x.pageCount > MAX_PAGES)
          => (x.pc = "ret" /\ x.out = <<>> /\ x.newIds = <<>> /\ x.toSave = <<>>)
    /\ startPage >= 2 => listCalls <= MAX_PAGES + 1 - startPage
    /\ \A ev \in BagToSet(pending) : ev.pageCount <= MAX_PAGES + 1

\* C8 witness: the chain started at page counter 2 has listed 9 pages, and
\* the request with page counter 11 returns
LegacyChainExhausted ==
    /\ startPage = 2
    /\ listCalls = 9
    /\ \E e \in Slots : exec[e].mode = "legacy" /\ exec[e].pageCount = 11
                          /\ exec[e].pc = "ret"

\* C9: a pageCount = 0 request of a user with a stored cursor whose page
\* reports added [m1, m2], nothing deleted and no token, both fetches
\* succeeding (m1 and m2 being new: both are saved), ends with m1 and m2
\* stored, the cursor at the page's historyId, exactly one notification and
\* one embedding event carrying [m1, m2], and no follow-up request.
NewMailScenario ==
    \A e \in Slots :
        LET x == exec[e] IN
        (x.mode = "history0" /\ ~x.cold /\ x.pc = "ret" /\ ~x.err
            /\ x.newIds = <<"m1", "m2">> /\ x.delIds = <<>>
            /\ x.token = NoTok /\ x.hid # NoHid
            /\ x.valid = <<"m1", "m2">> /\ x.toSave = <<"m1", "m2">>)
        => /\ store[<<x.userId, "m1">>] = 1 /\ store[<<x.userId, "m2">>] = 1
           /\ cursor[x.userId] = x.hid
           /\ x.out = <<Notify(<<"m1", "m2">>), Embedding(<<"m1", "m2">>)>>

\* C10: a request that applied a history page carrying continuation token
\* T, and ran to its end without error, has emitted a follow-up request,
\* and every follow-up it emitted carries exactly T.
ContinuationFidelity ==
    \A e \in Slots :
        LET x == exec[e] IN
        (x.mode \in HistoryModes /\ ~x.cold /\ x.pc = "ret" /\ ~x.err
            /\ x.token # NoTok)
        => /\ \E i \in DOMAIN x.out : x.out[i].kind = "sync"
           /\ \A i \in DOMAIN x.out :
                 x.out[i].kind = "sync" => x.out[i].token = x.token

\* C11: a pageCount = 0 request that found no stored cursor makes no
\* history-feed call (it is never suspended at getMailboxHistory) and emits
\* no follow-up sync request.
ColdStartTerminates ==
    \A e \in Slots :
        LET x == exec[e] IN
        x.cold =>
            /\ x.pc \notin {"sh_hist", "h0_hist2", "h0_sleep"}
            /\ \A i \in DOMAIN x.out : x.out[i].kind # "sync"

\* C12: the step in which an awaited call of a handler rejects ends that
\* handler in its catch block: it returns normally having emitted no
\* follow-up request, and the step leaves the pending requests, the other
\* executions and the poller as they were; the handler then returns and
\* frees its slot.
FailureContained ==
    [][\A e \in Slots :
          (~exec[e].err /\ exec'[e].err)
          => /\ exec'[e].pc = "ret"
             /\ \A i \in DOMAIN exec'[e].out : exec'[e].out[i].kind # "sync"
             /\ exec'[e].out = exec[e].out
             /\ pending' = pending
             /\ poll' = poll
             /\ \A f \in Slots \ {e} : exec'[f] = exec[f]]_vars

\* C12 witness: a legacy request of one user has failed and returns while a
\* history request of the other user is suspended at an await
FailureBesideOtherUser ==
    \E a, b \in Slots :
        /\ exec[a].err /\ exec[a].pc = "ret" /\ exec[a].mode = "legacy"
        /\ exec[b].mode \in HistoryModes /\ Suspended(exec[b])
        /\ exec[b].userId # exec[a].userId

\* the steps of a history request up to the page's cursor write
PagePcs ==
    {"sh_getLast", "sh_hist", "p1_hist", "phr_fetch", "phr_find", "phr_save",
     "phr_delete"}

\* C13: from its delivery until the cursor write of its page, a history
\* request leaves the user's cursor as it was, whether its steps succeed or
\* fail (so a page whose fetch, save or delete fails leaves the cursor at
\* the value it had before the request); and when the cursor write is
\* reached, the page's saves and deletes are in the store.
CursorNotSpeculative ==
    [][\A e \in Slots :
          LET x == exec[e] IN
          /\ (x.pc \in PagePcs /\ ~x.cold /\ exec'[e].pc # "phr_cursor")
                => cursor'[x.userId] = cursor[x.userId]
          /\ exec'[e].pc = "phr_cursor"
                => /\ cursor'[x.userId] = cursor[x.userId]
                   /\ \A id \in Range(exec'[e].delIds) :
                         store'[<<x.userId, id>>] = 0
                   /\ \A id \in Range(exec'[e].toSave) \ Range(exec'[e].delIds) :
                         store'[<<x.userId, id>>] = 1]_vars

\* C13 witness: the save of a page with a historyId ahead of the cursor has
\* failed, and the cursor is the one the request read
PageFailedCursorKept ==
    \E e \in Slots :
        LET x == exec[e] IN
        /\ x.mode = "history0" /\ x.err /\ x.pc = "ret"
        /\ x.toSave # <<>> /\ store[<<x.userId, x.toSave[1]>>] = 0
        /\ x.hid = 2 /\ x.lastHid = 1 /\ cursor[x.userId] = 1

\* C14: when the history listing of a request failed because the stored
\* cursor is too old, the request ends with that cursor no longer stored
\* (cleared, or replaced by the profile's historyId).
HistoryExpiredRecovery ==
    \A e \in Slots :
        LET x == exec[e] IN
        (x.expired /\ x.pc = "ret") => cursor[x.userId] # x.lastHid

\* C15: when processAndSaveBatch(u, ...) has decided which candidates to
\* fetch, every candidate that is not stored for u is among them (it will
\* be fetched, and persisted for u if its fetch succeeds), whoever else
\* owns a record of the same id.
DedupScopedToUser ==
    \A e \in Slots :
        LET x == exec[e] IN
        (x.mode = "first" /\ x.pc = "pb_fetch")
        => \A id \in Range(x.newIds) :
              store[<<x.userId, id>>] = 0 => id \in Range(x.valid)

\* C16: every id carried by an 'email.embedding' event that a history
\* request emitted was persisted by that request's page (it is among the
\* emails the page saved).
EmbeddingIdsPersisted ==
    \A e \in Slots :
        LET x == exec[e] IN
        x.mode \in HistoryModes
        => \A i \in DOMAIN x.out :
              x.out[i].kind = "embedding"
              => Range(x.out[i].ids) \subseteq Range(x.toSave)

\* C17: no metadata call is issued by a history page for an id that is
\* stored for the user when the page is processed.
NoRefetchOfKnownIds ==
    \A e \in Slots :
        LET x == exec[e] IN
        (x.mode \in HistoryModes /\ x.pc = "phr_fetch")
        => \A id \in Range(x.newIds) : store[<<x.userId, id>>] = 0

AfterSavePcs ==
    {"phr_delete", "phr_cursor", "h0_getLast2", "h0_hist2", "h0_sleep",
     "p1_sleep", "p1_final", "ret"}

\* C18: after the save step of a history page one of whose metadata fetches
\* failed, every added id whose fetch succeeded has a record for the user
\* (unless the same page deletes it), and no id whose fetch failed was saved
\* by the page.
PerMessageIsolation ==
    \A e \in Slots :
        LET x == exec[e] IN
        (x.mode \in HistoryModes /\ x.pc \in AfterSavePcs /\ ~x.err
            /\ Range(x.valid) # Range(x.newIds))
        => /\ \A id \in Range(x.valid) \ Range(x.delIds) :
                 store[<<x.userId, id>>] = 1
           /\ Range(x.toSave) \subseteq Range(x.valid)

\* C19: every user the poller visited with an active session and a
\* successful probe listing got a sync request and a notification, empty
\* listing or not.
PollerAlwaysOriginates ==
    \A i \in DOMAIN poll.log :
        (poll.log[i].online /\ poll.log[i].listed)
        => (poll.log[i].request /\ poll.log[i].notified)

\* C20: a user without an active session causes no remote call, no request
\* and no notification; whatever happened for a user of a tick, failure
\* included, the next user of that tick is visited; and a user whose probe
\* listing is not empty gets its request and its notification.
PollerIsolation ==
    \A i \in DOMAIN poll.log :
        LET en == poll.log[i] IN
        /\ (~en.online /\ ~en.failed)
              => (en.calls = 0 /\ ~en.request /\ ~en.notified)
        /\ (en.listed /\ ~en.empty) => (en.request /\ en.notified)
        /\ \A j \in 1..(Len(UserOrder) - 1) :
              en.userId = UserOrder[j]
              => \/ /\ i < Len(poll.log)
                    /\ poll.log[i + 1].userId = UserOrder[j + 1]
                    /\ poll.log[i + 1].tick = en.tick
                 \/ /\ i = Len(poll.log)
                    /\ poll.pc \in {"online", "client", "list"}
                    /\ poll.i = j + 1
                    /\ poll.tick = en.tick

\* C20 witness: in the first tick the probe of u1 failed and u2 got its
\* request; an offline user was passed over; the second tick has started
PollerWentOn ==
    /\ Len(poll.log) >= 3
    /\ poll.log[1].userId = "u1" /\ poll.log[1].failed /\ poll.log[1].calls = 1
    /\ poll.log[2].userId = "u2" /\ poll.log[2].request /\ poll.log[2].tick = 1
    /\ poll.log[3].tick = 2 /\ ~poll.log[3].online /\ ~poll.log[3].failed

\* C21: no step of a legacy list-page request removes a record: every
\* record stored before the step is stored after it.
LegacyNeverDeletes ==
    [][\A k \in Keys : store'[k] >= store[k]]_vars

\* C21 witness: a legacy request has listed and saved m2 only, and the
\* user's m1, stored by an earlier page and absent from this one, is still
\* stored
LegacyKeptAbsentId ==
    \E e \in Slots :
        LET x == exec[e] IN
        /\ x.mode = "legacy" /\ x.pc = "ret" /\ ~x.err
        /\ x.newIds = <<"m2">> /\ x.toSave = <<"m2">>
        /\ store[<<x.userId, "m1">>] = 1 /\ store[<<x.userId, "m2">>] = 1

\* C22: a request whose handling ends in an error has delivered no
\* notification to the user's client.
FailedSyncSilent ==
    \A e \in Slots :
        LET x == exec[e] IN
        (x.err /\ x.pc = "ret")
        => \A i \in DOMAIN x.out : x.out[i].kind # "notify"

\* C23: the remote's history ids never decreasing, no step moves a user's
\* persisted cursor to an older history id.
CursorMonotonic ==
    [][\A u \in Users : cursor'[u] >= cursor[u]]_vars

\* C24: a request that has emitted its follow-up has finished all its work
\* (it is at its return); while a continuation request is pending, no
\* execution is at work; and while a continuation page is being handled, no
\* other execution is at work.
ChainPageOrdering ==
    /\ \A e \in Slots :
          (\E i \in DOMAIN exec[e].out : exec[e].out[i].kind = "sync")
          => exec[e].pc = "ret"
    /\ \A ev \in BagToSet(pending) :
          ev.pageCount = 1 => \A s \in Slots : exec[s].pc \in {"idle", "ret"}
    /\ \A e \in Slots :
          (exec[e].mode = "history1" /\ Suspended(exec[e]))
          => \A f \in Slots \ {e} : exec[f].pc = "idle"

\* C24 witness: the fetch of a continuation page begins; the page before
\* it saved m1 and wrote the cursor, and its request has returned
NextPageBegins ==
    \E e \in Slots :
        LET x == exec[e] IN
        /\ x.mode = "history1" /\ x.pc = "p1_hist"
        /\ x.pageToken \in HistoryTokens
        /\ store[<<x.userId, "m1">>] = 1
        /\ cursor[x.userId] = 2
        /\ \A f \in Slots \ {e} : exec[f].pc = "idle"

PostDeletePcs == AfterSavePcs \ {"phr_delete"}

\* C25: when one execution of a user has applied a page's deletion of an id
\* and another execution of that user has saved the same id from an older
\* page (one with a smaller historyId) that does not delete it, the record
\* is not stored: the save of the older addition did not come after the
\* delete.
RecordPresence ==
    \A a, b \in Slots :
        \A id \in Ids :
            (/\ a # b /\ exec[a].userId = exec[b].userId
             /\ exec[a].mode \in HistoryModes /\ exec[b].mode \in HistoryModes
             /\ exec[b].pc \in PostDeletePcs /\ ~exec[b].err
             /\ id \in Range(exec[b].delIds)
             /\ exec[a].hid # NoHid /\ exec[a].hid < exec[b].hid
             /\ exec[a].pc \in AfterSavePcs /\ ~exec[a].err
             /\ id \in Range(exec[a].toSave) \ Range(exec[a].delIds))
            => store[<<exec[a].userId, id>>] = 0

\* C26: a token sent to the history feed as page token came from a history
\* response, and a token sent to the message listing came from a message
\* listing.
TokenProvenance ==
    \A e \in Slots :
        LET x == exec[e] IN
        /\ x.pc = "p1_hist" => x.pageToken \in HistoryTokens
        /\ x.pc = "lg_list" => x.pageToken \in ListTokens

\* C27: when the cursor write of a history page advances the user's cursor to
\* the page's historyId, every id the page reported as added whose metadata
\* fetch succeeded (the message exists remotely) and that the page did not
\* report as deleted has a record for that user.
NoAdditionLost ==
    [][\A e \in Slots :
          LET x == exec[e] IN
          (x.mode \in HistoryModes /\ x.pc = "phr_cursor"
              /\ exec'[e].pc # "phr_cursor" /\ cursor'[x.userId] = x.hid)
          => \A id \in Range(x.valid) \ Range(x.delIds) :
                 store'[<<x.userId, id>>] = 1]_vars

\* C28: a step that creates, overwrites or deletes a record of user v, or
\* writes v's cursor, is a step of an execution handling a request of v, and
\* of no other execution: handling a request of u leaves the records and the
\* cursor of every other user as they were.
CrossUserFrame ==
    [][\A v \in Users :
          (\/ cursor'[v] # cursor[v]
           \/ \E id \in Ids : store'[<<v, id>>] # store[<<v, id>>])
          => \E e \in Slots :
                /\ exec[e].userId = v
                /\ exec'[e] # exec[e]
                /\ \A f \in Slots \ {e} : exec'[f] = exec[f]]_vars

\* C28 witness: a history page of one user has deleted an id, the page's
\* cursor write included, while another user owns a record with the same id
DeletedBesideOtherOwner ==
    \E e \in Slots, v \in Users, id \in Ids :
        /\ exec[e].mode \in HistoryModes /\ ~exec[e].err
        /\ exec[e].pc \in PostDeletePcs \ {"phr_cursor"}
        /\ exec[e].userId # v
        /\ id \in Range(exec[e].delIds)
        /\ cursor[exec[e].userId] = exec[e].hid /\ exec[e].hid # NoHid
        /\ store[<<exec[e].userId, id>>] = 0
        /\ store[<<v, id>>] = 1

====
